---- MODULE Spec2Model ----
(***************************************************************************)
(* Access-control and ticket-workflow model of the bug tracker.            *)
(*                                                                         *)
(* The store is PostgreSQL with row-level security.  The tables and the    *)
(* policies are translated from the migrations; the operations are the     *)
(* handlers of the React components plus the direct store calls that the   *)
(* policies guard.  Policy evaluation follows PostgreSQL's rules:          *)
(*  - the permissive policies of one command are OR-ed;                    *)
(*  - a sub-select inside a policy is itself filtered by the SELECT        *)
(*    policies of the table it reads, for the same caller;                 *)
(*  - a SECURITY DEFINER function reads the tables unfiltered;             *)
(*  - an UPDATE or DELETE with a WHERE clause on the table's columns also  *)
(*    applies the SELECT policies to the existing row; rows that fail      *)
(*    USING are skipped silently (no error, zero rows);                    *)
(*  - a policy without WITH CHECK uses its USING expression as the check   *)
(*    on the new row of an INSERT or UPDATE; a failed check is an error.   *)
(***************************************************************************)
EXTENDS Integers, FiniteSets, Sequences, TLC

\* ---------------------------------------------------------------- bounds
MaxProjects == 1
MaxTickets == 1
MaxComments == 2
MaxSessions == 2

\* ------------------------------------------------------------ value sets
Users == {"A", "B", "C"}
\* The users who use the dashboard's create-project form.
Creators == {"A"}
Null == "null"
\* The null of a column that holds a row id (comments.parent_id).
NullId == 0
Titles == {"t1", "t2"}

ticket_type == {"bug", "feature", "task"}
ticket_priority == {"low", "medium", "high", "critical"}
ticket_status == {"todo", "in_progress", "done"}
user_role == {"admin", "developer", "viewer"}

ProjectIds == 1..MaxProjects
TicketIds == 1..MaxTickets
CommentIds == 1..MaxComments
\* The browser sessions (tabs) whose handlers may be between two awaits.
Sessions == 1..MaxSessions
Names == {"n1", "n2"}
Contents == {"c1", "c2"}

VARIABLES
    projects,         \* rows of public.projects
    project_members,  \* rows of public.project_members
    tickets,          \* rows of public.tickets
    comments,         \* rows of public.comments
    nextProject,      \* next unused project id (gen_random_uuid)
    nextTicket,       \* next unused ticket id
    nextComment,      \* next unused comment id
    creating,         \* per user: the project whose createProject is between its two inserts
    pending,          \* per browser session: the store call its handler is about to await
    local,            \* React state of one browser: dashboard list, board, dialog, project page
    last              \* the last operation: its name, caller, target id and the store's answer

vars == <<projects, project_members, tickets, comments,
          nextProject, nextTicket, nextComment, creating, pending, local, last>>

\* ------------------------------------------------------------- row makers
ProjectRow(id, name, owner) == [id |-> id, name |-> name, owner_id |-> owner]

MemberRow(p, u, role) == [project_id |-> p, user_id |-> u, role |-> role]

TicketRow(id, title, type, priority, status, p, reporter, assignee) ==
    [id |-> id, title |-> title, type |-> type, priority |-> priority,
     status |-> status, project_id |-> p, reporter_id |-> reporter,
     assignee_id |-> assignee]

\* created_at DEFAULT NOW(): the tick of the insert, one tick per row unless
\* the statement says otherwise (InsertCommentAt).
CommentRow(id, t, author, parent, content) ==
    [id |-> id, ticket_id |-> t, author_id |-> author, parent_id |-> parent,
     content |-> content, created_at |-> id]

Outcome(op, caller, target, outcome) ==
    [op |-> op, caller |-> caller, target |-> target, outcome |-> outcome]

\* A store call that a handler has prepared and that is not yet answered:
\* the row id and the values it carries, and what the handler had last seen
\* of the row.
Request(op, caller, target, user, value, seen) ==
    [op |-> op, caller |-> caller, target |-> target, user |-> user,
     value |-> value, seen |-> seen]

NoRequest == Request("none", Null, 0, Null, Null, Null)

\* --------------------------------------------------------------- resolver
\* Mutant: the resolver without its owner branch.
get_user_project_ids_members_only(user_uuid) ==
    {pm.project_id : pm \in {m \in project_members : m.user_id = user_uuid}}

\* SECURITY DEFINER: reads both tables unfiltered.
get_user_project_ids(user_uuid) ==
    {pm.project_id : pm \in {m \in project_members : m.user_id = user_uuid}}
    \cup
    {p.id : p \in {q \in projects : q.owner_id = user_uuid}}

\* The function as the API exposes it to a signed-in caller uid: user_uuid is
\* an argument of the call and defaults to auth.uid().
rpc_get_user_project_ids(uid, user_uuid) ==
    get_user_project_ids(IF user_uuid = Null THEN uid ELSE user_uuid)

\* --------------------------------------------------------------- policies
\* projects
ProjectsSelectUsing(uid, row) ==
    row.id \in get_user_project_ids(uid) \/ row.owner_id = uid

ProjectsInsertCheck(uid, row) == row.owner_id = uid

\* Mutant: every user with access to the project may update it.
ProjectsUpdateUsing_members(uid, row) == row.id \in get_user_project_ids(uid)

ProjectsUpdateUsing(uid, row) == row.owner_id = uid

ProjectsDeleteUsing(uid, row) == row.owner_id = uid

VisibleProjects(uid) == {p \in projects : ProjectsSelectUsing(uid, p)}

\* project_members
MembersViewUsing(uid, row) == row.project_id \in get_user_project_ids(uid)

MembersManageUsing(uid, row) ==
    row.project_id \in {p.id : p \in {q \in VisibleProjects(uid) : q.owner_id = uid}}

MembersJoinCheck(uid, row) == uid = row.user_id

MembersSelect(uid, row) == MembersViewUsing(uid, row) \/ MembersManageUsing(uid, row)

VisibleMembers(uid) == {m \in project_members : MembersSelect(uid, m)}

\* Mutant: the owners' FOR ALL policy alone, without the join policy.
MembersInsertCheck_manage_only(uid, row) == MembersManageUsing(uid, row)

MembersInsertCheck(uid, row) ==
    MembersManageUsing(uid, row) \/ MembersJoinCheck(uid, row)

\* Mutant: a member may also delete the own row.
MembersDeleteUsing_or_self(uid, row) ==
    MembersManageUsing(uid, row) \/ uid = row.user_id

MembersDeleteUsing(uid, row) == MembersManageUsing(uid, row)

MembersUpdateUsing(uid, row) == MembersManageUsing(uid, row)

\* tickets
\* Mutant: the initial SELECT policy, by membership rows only.
TicketsSelectUsing_initial(uid, row) ==
    row.project_id \in {m.project_id : m \in {x \in VisibleMembers(uid) : x.user_id = uid}}

TicketsSelectUsing(uid, row) == row.project_id \in get_user_project_ids(uid)

VisibleTickets(uid) == {t \in tickets : TicketsSelectUsing(uid, t)}

\* Mutant: an insert policy that turns viewers away.
TicketsInsertCheck_not_viewer(uid, row) ==
    /\ row.project_id \in
         {m.project_id : m \in {x \in VisibleMembers(uid) :
                                  x.user_id = uid /\ x.role # "viewer"}}
    /\ uid = row.reporter_id

TicketsInsertCheck(uid, row) ==
    /\ row.project_id \in
         {m.project_id : m \in {x \in VisibleMembers(uid) : x.user_id = uid}}
    /\ uid = row.reporter_id

\* Mutant: the update policy without its assignee branch.
TicketsUpdateUsing_owner_only(uid, row) ==
    row.project_id \in {p.id : p \in {q \in VisibleProjects(uid) : q.owner_id = uid}}

\* Mutant: the update policy also admits the reporter.
TicketsUpdateUsing_reporter(uid, row) ==
    \/ uid = row.assignee_id
    \/ uid = row.reporter_id
    \/ row.project_id \in {p.id : p \in {q \in VisibleProjects(uid) : q.owner_id = uid}}

TicketsUpdateUsing(uid, row) ==
    \/ uid = row.assignee_id
    \/ row.project_id \in {p.id : p \in {q \in VisibleProjects(uid) : q.owner_id = uid}}

TicketsDeleteUsing(uid, row) ==
    row.project_id \in {p.id : p \in {q \in VisibleProjects(uid) : q.owner_id = uid}}

\* comments
CommentsSelectUsing(uid, row) ==
    row.ticket_id \in
      {t.id : t \in {x \in VisibleTickets(uid) :
          x.project_id \in
            {m.project_id : m \in {y \in VisibleMembers(uid) : y.user_id = uid}}}}

CommentsInsertCheck(uid, row) ==
    /\ row.ticket_id \in
         {t.id : t \in {x \in VisibleTickets(uid) :
             x.project_id \in
               {m.project_id : m \in {y \in VisibleMembers(uid) : y.user_id = uid}}}}
    /\ uid = row.author_id

CommentsUpdateUsing(uid, row) == uid = row.author_id

CommentsDeleteUsing(uid, row) == uid = row.author_id

VisibleComments(uid) == {c \in comments : CommentsSelectUsing(uid, c)}

\* ------------------------------------------------------------------ Init
\* The useState initial values of the pages: Dashboard's projects, the
\* board's tickets, the open TicketDialog (none), its comments, and the
\* Project page with the route it was opened for (0: not on that page);
\* user is the signed-in user whose board or page it is.
NoLocal ==
    [user |-> Null, projects |-> <<>>, tickets |-> {}, dialog |-> {},
     comments |-> <<>>, projectId |-> 0, project |-> {}, error |-> Null,
     loading |-> TRUE]

Init ==
    /\ projects = {}
    /\ project_members = {}
    /\ tickets = {}
    /\ comments = {}
    /\ nextProject = 1
    /\ nextTicket = 1
    /\ nextComment = 1
    /\ creating = [u \in Users |-> 0]
    /\ pending = [s \in Sessions |-> NoRequest]
    /\ local = NoLocal
    /\ last = Outcome("init", Null, 0, "ok")

\* ------------------------------------------------------------ store calls
HasProject(p) == \E q \in projects : q.id = p

HasMember(p, u) == \E m \in project_members : m.project_id = p /\ m.user_id = u

OwnerOf(p) == IF HasProject(p) THEN (CHOOSE q \in projects : q.id = p).owner_id ELSE Null

\* Mutant: the insert without the UNIQUE(project_id, user_id) constraint.
MemberInsertOutcome_no_unique(uid, row) ==
    IF ~MembersInsertCheck(uid, row) THEN "rls_error"
    ELSE IF ~HasProject(row.project_id) THEN "fk_error"
    ELSE "ok"

\* INSERT INTO project_members: policy check, then UNIQUE(project_id, user_id),
\* then the foreign key to projects.
MemberInsertOutcome(uid, row) ==
    IF ~MembersInsertCheck(uid, row) THEN "rls_error"
    ELSE IF HasMember(row.project_id, row.user_id) THEN "conflict"
    ELSE IF ~HasProject(row.project_id) THEN "fk_error"
    ELSE "ok"

\* UPDATE project_members ... WHERE id = old.id
MemberUpdateOutcome(uid, old, new) ==
    IF ~(MembersSelect(uid, old) /\ MembersUpdateUsing(uid, old)) THEN "filtered"
    ELSE IF ~(MembersUpdateUsing(uid, new) /\ MembersSelect(uid, new)) THEN "rls_error"
    ELSE "ok"

\* Mutant: the update of a project without the check of the new row.
ProjectUpdateOutcome_using_only(uid, old, new) ==
    IF ~(ProjectsSelectUsing(uid, old) /\ ProjectsUpdateUsing(uid, old)) THEN "filtered"
    ELSE "ok"

\* UPDATE projects ... WHERE id = old.id
ProjectUpdateOutcome(uid, old, new) ==
    IF ~(ProjectsSelectUsing(uid, old) /\ ProjectsUpdateUsing(uid, old)) THEN "filtered"
    ELSE IF ~(ProjectsUpdateUsing(uid, new) /\ ProjectsSelectUsing(uid, new)) THEN "rls_error"
    ELSE "ok"

\* INSERT INTO tickets: an assignee that is not a uuid is rejected when the
\* request is parsed; then the policy check; then the foreign key.
TicketInsertOutcome(uid, row) ==
    IF row.assignee_id \notin Users \cup {Null} THEN "error"
    ELSE IF ~TicketsInsertCheck(uid, row) THEN "rls_error"
    ELSE IF ~HasProject(row.project_id) THEN "fk_error"
    ELSE "ok"

\* UPDATE tickets ... WHERE id = old.id
\* Mutant: UPDATE tickets judged by the UPDATE policy alone.
TicketUpdateOutcome_update_only(uid, old, new) ==
    IF new.assignee_id \notin Users \cup {Null} THEN "error"
    ELSE IF ~TicketsUpdateUsing(uid, old) THEN "filtered"
    ELSE IF ~TicketsUpdateUsing(uid, new) THEN "rls_error"
    ELSE "ok"

TicketUpdateOutcome(uid, old, new) ==
    IF new.assignee_id \notin Users \cup {Null} THEN "error"
    ELSE IF ~(TicketsSelectUsing(uid, old) /\ TicketsUpdateUsing(uid, old)) THEN "filtered"
    ELSE IF ~(TicketsUpdateUsing(uid, new) /\ TicketsSelectUsing(uid, new)) THEN "rls_error"
    ELSE "ok"

\* INSERT INTO comments
CommentInsertOutcome(uid, row) ==
    IF ~CommentsInsertCheck(uid, row) THEN "rls_error"
    ELSE IF ~(\E t \in tickets : t.id = row.ticket_id) THEN "fk_error"
    ELSE IF row.parent_id # NullId /\ ~(\E c \in comments : c.id = row.parent_id) THEN "fk_error"
    ELSE "ok"

\* UPDATE comments ... WHERE id = old.id
CommentUpdateOutcome(uid, old, new) ==
    IF ~(CommentsSelectUsing(uid, old) /\ CommentsUpdateUsing(uid, old)) THEN "filtered"
    ELSE IF ~(CommentsUpdateUsing(uid, new) /\ CommentsSelectUsing(uid, new)) THEN "rls_error"
    ELSE "ok"

\* DELETE FROM comments WHERE id = c.id: the policies, then the reference
\* from the parent_id of the other comments, which has no ON DELETE action.
CommentDeleteOutcome(uid, c) ==
    IF ~(CommentsSelectUsing(uid, c) /\ CommentsDeleteUsing(uid, c)) THEN "filtered"
    ELSE IF \E r \in comments \ {c} : r.parent_id = c.id THEN "fk_error"
    ELSE "ok"

\* ON DELETE CASCADE from a set of tickets to their comments.  comments.parent_id
\* has no ON DELETE action: a surviving comment whose parent would be removed
\* makes the whole statement fail.
CommentsOfTickets(ts) == {c \in comments : c.ticket_id \in {t.id : t \in ts}}

\* Mutant: the reference from parent_id is not enforced.
CascadeBlocked_unchecked(gone) == FALSE

CascadeBlocked(gone) ==
    \E c \in comments \ gone : c.parent_id \in {g.id : g \in gone}

\* ------------------------------------------------------------ createProject
\* Mutant: the second insert of createProject stores the column default role.
CreateProjectAddMember_default_role(user) ==
    /\ creating[user] # 0
    /\ LET row == MemberRow(creating[user], user, "developer")
           out == MemberInsertOutcome(user, row)
       IN \E transport_ok \in BOOLEAN :
            /\ project_members' =
                 IF transport_ok /\ out = "ok" THEN project_members \cup {row}
                 ELSE project_members
            /\ last' = Outcome("createProject.member", user, creating[user], IF transport_ok THEN out ELSE "error")
    /\ creating' = [creating EXCEPT ![user] = 0]
    /\ local' = [local EXCEPT !.projects =
                   <<ProjectRow(creating[user], "n1", user)>> \o local.projects]
    /\ UNCHANGED <<projects, tickets, comments, nextProject, nextTicket, nextComment,
                   pending>>

\* First insert: the project row, owner_id = user.id, then .select().single().
\* When it fails (refused, or not delivered) createProject throws: nothing
\* else is sent and the list is left alone.
CreateProjectInsert(user) ==
    /\ creating[user] = 0
    /\ nextProject <= MaxProjects
    /\ LET row == ProjectRow(nextProject, "n1", user)
       IN \E transport_ok \in BOOLEAN :
          IF transport_ok /\ ProjectsInsertCheck(user, row)
          THEN /\ projects' = projects \cup {row}
               /\ nextProject' = nextProject + 1
               /\ creating' = [creating EXCEPT ![user] = row.id]
               /\ last' = Outcome("createProject.project", user, row.id, "ok")
          ELSE /\ UNCHANGED <<projects, nextProject, creating>>
               /\ last' = Outcome("createProject.project", user, row.id,
                                  IF transport_ok THEN "rls_error" ELSE "error")
    /\ UNCHANGED <<project_members, tickets, comments, nextTicket, nextComment,
                   pending, local>>

\* Mutant: the project is put on the dashboard's list only when the
\* membership row was stored.
CreateProjectAddMember_list_on_success(user) ==
    /\ creating[user] # 0
    /\ LET row == MemberRow(creating[user], user, "admin")
           out == MemberInsertOutcome(user, row)
       IN \E transport_ok \in BOOLEAN :
            /\ project_members' =
                 IF transport_ok /\ out = "ok" THEN project_members \cup {row}
                 ELSE project_members
            /\ last' = Outcome("createProject.member", user, creating[user], IF transport_ok THEN out ELSE "error")
            /\ local' = IF transport_ok /\ out = "ok"
                         THEN [local EXCEPT !.projects =
                                 <<ProjectRow(creating[user], "n1", user)>> \o local.projects]
                         ELSE local
    /\ creating' = [creating EXCEPT ![user] = 0]
    /\ UNCHANGED <<projects, tickets, comments, nextProject, nextTicket, nextComment,
                   pending>>

\* Second insert: the creator as member with role admin.  A failure of this
\* insert is only reported; the project is kept.  Either way the project row
\* that the first insert returned is put in front of the dashboard's list.
CreateProjectAddMember(user) ==
    /\ creating[user] # 0
    /\ LET row == MemberRow(creating[user], user, "admin")
           out == MemberInsertOutcome(user, row)
       IN \E transport_ok \in BOOLEAN :
            /\ project_members' =
                 IF transport_ok /\ out = "ok" THEN project_members \cup {row}
                 ELSE project_members
            /\ last' = Outcome("createProject.member", user, creating[user], IF transport_ok THEN out ELSE "error")
    /\ creating' = [creating EXCEPT ![user] = 0]
    /\ local' = [local EXCEPT !.projects =
                   <<ProjectRow(creating[user], "n1", user)>> \o local.projects]
    /\ UNCHANGED <<projects, tickets, comments, nextProject, nextTicket, nextComment,
                   pending>>

\* ---------------------------------------------------------- ProjectSettings
\* inviteMember: owner only; looks the user up, refuses an existing member,
\* inserts the row.
inviteMember(user, p, invitee, inviteRole) ==
    /\ \E q \in VisibleProjects(user) : q.id = p /\ user = q.owner_id
    /\ LET row == MemberRow(p, invitee, inviteRole)
           existingMember == \E m \in VisibleMembers(user) :
                                m.project_id = p /\ m.user_id = invitee
           out == IF existingMember THEN "already_member"
                  ELSE MemberInsertOutcome(user, row)
       IN /\ project_members' =
               IF out = "ok" THEN project_members \cup {row} ELSE project_members
          /\ last' = Outcome("inviteMember", user, p, out)
    /\ UNCHANGED <<projects, tickets, comments, nextProject, nextTicket,
                   nextComment, creating, pending, local>>

\* inviteMember up to its last await, in one browser session: the owner guard
\* and the lookup of an existing member.  When no row is found the insert is
\* the call that follows.
inviteMemberCheck(s, user, p, invitee, inviteRole) ==
    /\ pending[s] = NoRequest
    /\ \E q \in VisibleProjects(user) : q.id = p /\ user = q.owner_id
    /\ LET existingMember == \E m \in VisibleMembers(user) :
                                m.project_id = p /\ m.user_id = invitee
       IN IF existingMember
          THEN /\ last' = Outcome("inviteMember", user, p, "already_member")
               /\ UNCHANGED pending
          ELSE /\ last' = Outcome("inviteMember.check", user, p, "ok")
               /\ pending' = [pending EXCEPT ![s] =
                                Request("inviteMember", user, p, invitee, inviteRole, Null)]
    /\ UNCHANGED <<projects, project_members, tickets, comments, nextProject,
                   nextTicket, nextComment, creating, local>>

\* inviteMember's insert, answered by the store.
inviteMemberInsert(s) ==
    /\ pending[s].op = "inviteMember"
    /\ LET r == pending[s]
           row == MemberRow(r.target, r.user, r.value)
           out == MemberInsertOutcome(r.caller, row)
       IN /\ project_members' =
               IF out = "ok" THEN project_members \cup {row} ELSE project_members
          /\ last' = Outcome("inviteMember", r.caller, r.target, out)
    /\ pending' = [pending EXCEPT ![s] = NoRequest]
    /\ UNCHANGED <<projects, tickets, comments, nextProject, nextTicket,
                   nextComment, creating, local>>

\* A direct insert into project_members by any signed-in client.
InsertMember(user, p, member, role) ==
    /\ LET row == MemberRow(p, member, role)
           out == MemberInsertOutcome(user, row)
       IN /\ project_members' =
               IF out = "ok" THEN project_members \cup {row} ELSE project_members
          /\ last' = Outcome("insertMember", user, p, out)
    /\ UNCHANGED <<projects, tickets, comments, nextProject, nextTicket,
                   nextComment, creating, pending, local>>

\* removeMember's store call, DELETE FROM project_members WHERE id = memberId,
\* as issued by any signed-in client (the component itself returns early
\* unless the caller is the owner).
removeMember(user, m) ==
    /\ m \in project_members
    /\ LET out == IF MembersSelect(user, m) /\ MembersDeleteUsing(user, m)
                  THEN "ok" ELSE "filtered"
       IN /\ project_members' =
               IF out = "ok" THEN project_members \ {m} ELSE project_members
          /\ last' = Outcome("removeMember", user, m.project_id, out)
    /\ UNCHANGED <<projects, tickets, comments, nextProject, nextTicket,
                   nextComment, creating, pending, local>>

\* UPDATE project_members SET role = ... WHERE id = m.id, by any signed-in
\* client; the settings page has no handler for it.
UpdateMember(user, m, role) ==
    /\ m \in project_members
    /\ LET new == [m EXCEPT !.role = role]
           out == MemberUpdateOutcome(user, m, new)
       IN /\ project_members' =
               IF out = "ok" THEN (project_members \ {m}) \cup {new}
               ELSE project_members
          /\ last' = Outcome("updateMember", user, m.project_id, out)
    /\ UNCHANGED <<projects, tickets, comments, nextProject, nextTicket,
                   nextComment, creating, pending, local>>

\* updateProject's store call, UPDATE projects SET name, description WHERE
\* id = project.id, as issued by any signed-in client (the component itself
\* returns early unless the caller is the owner).
updateProject(user, p, name) ==
    /\ p \in projects
    /\ LET new == [p EXCEPT !.name = name]
           out == ProjectUpdateOutcome(user, p, new)
       IN /\ projects' = IF out = "ok" THEN (projects \ {p}) \cup {new} ELSE projects
          /\ last' = Outcome("updateProject", user, p.id, out)
    /\ UNCHANGED <<project_members, tickets, comments, nextProject, nextTicket,
                   nextComment, creating, pending, local>>

\* UPDATE projects SET owner_id = owner WHERE id = p.id, by any signed-in client.
UpdateProjectOwner(user, p, owner) ==
    /\ p \in projects
    /\ LET new == [p EXCEPT !.owner_id = owner]
           out == ProjectUpdateOutcome(user, p, new)
       IN /\ projects' = IF out = "ok" THEN (projects \ {p}) \cup {new} ELSE projects
          /\ last' = Outcome("updateProjectOwner", user, p.id, out)
    /\ UNCHANGED <<project_members, tickets, comments, nextProject, nextTicket,
                   nextComment, creating, pending, local>>

\* INSERT INTO projects (name, owner_id) by any signed-in client.
InsertProject(user, owner) ==
    /\ nextProject <= MaxProjects
    /\ LET row == ProjectRow(nextProject, "n1", owner)
       IN IF ProjectsInsertCheck(user, row)
          THEN /\ projects' = projects \cup {row}
               /\ nextProject' = nextProject + 1
               /\ last' = Outcome("insertProject", user, row.id, "ok")
          ELSE /\ UNCHANGED <<projects, nextProject>>
               /\ last' = Outcome("insertProject", user, row.id, "rls_error")
    /\ UNCHANGED <<project_members, tickets, comments, nextTicket, nextComment,
                   creating, pending, local>>

\* DELETE FROM projects WHERE id = p, with the cascades of the schema.
DeleteProject(user, p) ==
    /\ p \in projects
    /\ LET goneTickets == {t \in tickets : t.project_id = p.id}
           goneComments == CommentsOfTickets(goneTickets)
           out == IF ~(ProjectsSelectUsing(user, p) /\ ProjectsDeleteUsing(user, p))
                  THEN "filtered"
                  ELSE IF CascadeBlocked(goneComments) THEN "fk_error"
                  ELSE "ok"
       IN /\ IF out = "ok"
             THEN /\ projects' = projects \ {p}
                  /\ project_members' =
                       {m \in project_members : m.project_id # p.id}
                  /\ tickets' = tickets \ goneTickets
                  /\ comments' = comments \ goneComments
             ELSE UNCHANGED <<projects, project_members, tickets, comments>>
          /\ last' = Outcome("deleteProject", user, p.id, out)
    /\ UNCHANGED <<nextProject, nextTicket, nextComment, creating, pending, local>>

\* -------------------------------------------------------- CreateTicketDialog
\* The assignee select offers "unassigned" and the fetched members; the form
\* starts with assignee_id = ''.  Only "unassigned" is mapped to null.
AssigneeChoices(user, p) ==
    {"", "unassigned"} \cup
    {m.user_id : m \in {x \in VisibleMembers(user) : x.project_id = p}}

\* The assignee_id handleSubmit sends for the select's value.
SubmittedAssignee(choice) == IF choice = "unassigned" THEN Null ELSE choice

\* handleSubmit: insert with status 'todo', reporter_id = user.id.
handleSubmit(user, p, title, type, priority, choice) ==
    /\ \E q \in VisibleProjects(user) : q.id = p
    /\ choice \in AssigneeChoices(user, p)
    /\ LET row == TicketRow(nextTicket, title, type, priority, "todo", p, user,
                            SubmittedAssignee(choice))
           out == TicketInsertOutcome(user, row)
       IN /\ out = "ok" => nextTicket <= MaxTickets
          /\ IF out = "ok"
             THEN /\ tickets' = tickets \cup {row}
                  /\ nextTicket' = nextTicket + 1
             ELSE UNCHANGED <<tickets, nextTicket>>
          /\ last' = Outcome("handleSubmit", user, p, out)
    /\ UNCHANGED <<projects, project_members, comments, nextProject,
                   nextComment, creating, pending, local>>

\* --------------------------------------------------------------- KanbanBoard
\* handleDragEnd: UPDATE tickets SET status = newStatus WHERE id = draggableId.
\* The board's ticket list is a local copy, so the card may be dragged by a
\* caller whose access has changed since it was fetched.
handleDragEnd(user, t, newStatus) ==
    /\ t \in tickets
    /\ LET new == [t EXCEPT !.status = newStatus]
           out == TicketUpdateOutcome(user, t, new)
       IN /\ tickets' = IF out = "ok" THEN (tickets \ {t}) \cup {new} ELSE tickets
          /\ last' = Outcome("handleDragEnd", user, t.id, out)
    /\ UNCHANGED <<projects, project_members, comments, nextProject, nextTicket,
                   nextComment, creating, pending, local>>

\* handleDragEnd up to its await, in one browser session: the card is dropped
\* on column newStatus and the update is prepared.
handleDragEndDrop(s, user, t, newStatus) ==
    /\ pending[s] = NoRequest
    /\ t \in tickets
    /\ pending' = [pending EXCEPT ![s] =
                     Request("handleDragEnd", user, t.id, Null, newStatus, t.status)]
    /\ last' = Outcome("handleDragEnd.drop", user, t.id, "ok")
    /\ UNCHANGED <<projects, project_members, tickets, comments, nextProject,
                   nextTicket, nextComment, creating, local>>

\* Mutant: the store applies the update only while the status is still the
\* one the card was dragged from.
handleDragEndUpdate_if_unchanged(s) ==
    /\ pending[s].op = "handleDragEnd"
    /\ LET r == pending[s]
           rows == {t \in tickets : t.id = r.target /\ t.status = r.seen}
       IN \/ /\ rows = {}
             /\ UNCHANGED tickets
             /\ last' = Outcome("handleDragEnd", r.caller, r.target, "filtered")
          \/ \E t \in rows :
               LET new == [t EXCEPT !.status = r.value]
                   out == TicketUpdateOutcome(r.caller, t, new)
               IN /\ tickets' = IF out = "ok" THEN (tickets \ {t}) \cup {new}
                                 ELSE tickets
                  /\ last' = Outcome("handleDragEnd", r.caller, r.target, out)
    /\ pending' = [pending EXCEPT ![s] = NoRequest]
    /\ UNCHANGED <<projects, project_members, comments, nextProject, nextTicket,
                   nextComment, creating, local>>

\* handleDragEnd's update, answered by the store:
\* UPDATE tickets SET status = newStatus WHERE id = draggableId.
handleDragEndUpdate(s) ==
    /\ pending[s].op = "handleDragEnd"
    /\ LET r == pending[s]
           rows == {t \in tickets : t.id = r.target}
       IN \/ /\ rows = {}
             /\ UNCHANGED tickets
             /\ last' = Outcome("handleDragEnd", r.caller, r.target, "filtered")
          \/ \E t \in rows :
               LET new == [t EXCEPT !.status = r.value]
                   out == TicketUpdateOutcome(r.caller, t, new)
               IN /\ tickets' = IF out = "ok" THEN (tickets \ {t}) \cup {new}
                                 ELSE tickets
                  /\ last' = Outcome("handleDragEnd", r.caller, r.target, out)
    /\ pending' = [pending EXCEPT ![s] = NoRequest]
    /\ UNCHANGED <<projects, project_members, comments, nextProject, nextTicket,
                   nextComment, creating, local>>

\* -------------------------------------------------------------- TicketDialog
\* The states of editedTicket that the edit form is brought to here: the title
\* stands for the text columns, status and assignee are chosen freely, type
\* and priority stay as loaded.  The assignee select offers "unassigned" and
\* the fetched members; an untouched empty assignee stays ''.
EditedTickets(user, t) ==
    [title : Titles, type : {t.type}, priority : {t.priority},
     status : ticket_status,
     assignee_id : {IF t.assignee_id = Null THEN "" ELSE t.assignee_id, "unassigned"}
                   \cup {m.user_id : m \in {x \in VisibleMembers(user) :
                                              x.project_id = t.project_id}}]

\* The row handleUpdateTicket asks for: six columns, assignee_id || null.
EditedRow(t, edited) ==
    [t EXCEPT !.title = edited.title, !.type = edited.type,
              !.priority = edited.priority, !.status = edited.status,
              !.assignee_id = IF edited.assignee_id = "" THEN Null
                              ELSE edited.assignee_id]

handleUpdateTicket(user, t, edited) ==
    /\ t \in tickets
    /\ LET new == EditedRow(t, edited)
           out == TicketUpdateOutcome(user, t, new)
       IN /\ tickets' = IF out = "ok" THEN (tickets \ {t}) \cup {new} ELSE tickets
          /\ last' = Outcome("handleUpdateTicket", user, t.id, out)
    /\ UNCHANGED <<projects, project_members, comments, nextProject, nextTicket,
                   nextComment, creating, pending, local>>

\* handleAddComment: insert (content, ticket_id, author_id = user.id).
handleAddComment(user, t) ==
    /\ t \in tickets
    /\ LET row == CommentRow(nextComment, t.id, user, NullId, "c1")
           out == CommentInsertOutcome(user, row)
       IN /\ out = "ok" => nextComment <= MaxComments
          /\ IF out = "ok"
             THEN /\ comments' = comments \cup {row}
                  /\ nextComment' = nextComment + 1
             ELSE UNCHANGED <<comments, nextComment>>
          /\ last' = Outcome("handleAddComment", user, t.id, out)
    /\ UNCHANGED <<projects, project_members, tickets, nextProject, nextTicket,
                   creating, pending, local>>

\* ------------------------------------------------------------- Project page
\* Mutant: fetchProject reads the project row before it checks the access.
fetchProjectResult_exists_first(user, projectId) ==
    IF ~HasProject(projectId)
    THEN [project |-> {}, error |-> "Failed to load project"]
    ELSE IF projectId \notin rpc_get_user_project_ids(user, Null)
    THEN [project |-> {}, error |-> "You do not have access to this project"]
    ELSE [project |-> {q \in projects : q.id = projectId}, error |-> Null]

\* What fetchProject leaves in the page's state: the project row, or the
\* error message that is rendered.
fetchProjectResult(user, projectId) ==
    LET projectIds == rpc_get_user_project_ids(user, Null)
        hasAccess == projectId \in projectIds
        data == {q \in VisibleProjects(user) : q.id = projectId}
    IN IF ~hasAccess
       THEN [project |-> {}, error |-> "You do not have access to this project"]
       ELSE IF data = {}
       THEN [project |-> {}, error |-> "Failed to load project"]
       ELSE [project |-> data, error |-> Null]

\* The rows fetchTickets puts on the board of project projectId.
fetchTickets(user, projectId) ==
    {t \in VisibleTickets(user) : t.project_id = projectId}

\* The rows fetchComments puts into the dialog of ticket ticketId.
fetchComments(user, ticketId) ==
    {c \in VisibleComments(user) : c.ticket_id = ticketId}

\* fetchProject, run when the page /projects/projectId is opened.
fetchProject(user, projectId) ==
    /\ LET r == fetchProjectResult(user, projectId)
       IN last' = Outcome("fetchProject", user, projectId,
                          IF r.error = Null THEN "ok" ELSE r.error)
    /\ UNCHANGED <<projects, project_members, tickets, comments, nextProject,
                   nextTicket, nextComment, creating, pending, local>>

\* ------------------------------------------------------ comments, store calls
\* INSERT INTO comments by any signed-in client, as a reply when parent is
\* the id of a comment; the dialog itself never sends parent_id.
InsertComment(user, t, parent, content) ==
    /\ t \in tickets
    /\ LET row == CommentRow(nextComment, t.id, user, parent, content)
           out == CommentInsertOutcome(user, row)
       IN /\ out = "ok" => nextComment <= MaxComments
          /\ IF out = "ok"
             THEN /\ comments' = comments \cup {row}
                  /\ nextComment' = nextComment + 1
             ELSE UNCHANGED <<comments, nextComment>>
          /\ last' = Outcome("insertComment", user, t.id, out)
    /\ UNCHANGED <<projects, project_members, tickets, nextProject, nextTicket,
                   creating, pending, local>>

\* UPDATE comments SET content = ... WHERE id = c.id, by any signed-in client.
UpdateComment(user, c, content) ==
    /\ c \in comments
    /\ LET new == [c EXCEPT !.content = content]
           out == CommentUpdateOutcome(user, c, new)
       IN /\ comments' = IF out = "ok" THEN (comments \ {c}) \cup {new} ELSE comments
          /\ last' = Outcome("updateComment", user, c.id, out)
    /\ UNCHANGED <<projects, project_members, tickets, nextProject, nextTicket,
                   nextComment, creating, pending, local>>

\* DELETE FROM comments WHERE id = c.id, by any signed-in client.
DeleteComment(user, c) ==
    /\ c \in comments
    /\ LET out == CommentDeleteOutcome(user, c)
       IN /\ comments' = IF out = "ok" THEN comments \ {c} ELSE comments
          /\ last' = Outcome("deleteComment", user, c.id, out)
    /\ UNCHANGED <<projects, project_members, tickets, nextProject, nextTicket,
                   nextComment, creating, pending, local>>

\* ---------------------------------------------------------------------- Next
\* Projects, memberships and the ticket workflow.
Next ==
    \/ \E u \in Creators : CreateProjectInsert(u)
    \/ \E u \in Users : CreateProjectAddMember(u)
    \/ \E u \in Users, p \in ProjectIds, v \in Users :
         inviteMember(u, p, v, "developer")
    \/ \E u \in Users, p \in ProjectIds, v \in Users : InsertMember(u, p, v, "developer")
    \/ \E u \in Users, m \in project_members : removeMember(u, m)
    \/ \E u \in Users, p \in projects : DeleteProject(u, p)
    \/ \E u \in Users, p \in ProjectIds, c \in Users \cup {"", "unassigned"} :
         handleSubmit(u, p, "t1", "task", "medium", c)
    \/ \E u \in Users, t \in tickets, s \in ticket_status : handleDragEnd(u, t, s)
    \/ \E u \in Users, t \in tickets :
         \E e \in EditedTickets(u, t) : handleUpdateTicket(u, t, e)

Spec == Init /\ [][Next]_vars

\* Projects, memberships, tickets as created, and their comments.
NextComments ==
    \/ \E u \in Creators : CreateProjectInsert(u)
    \/ \E u \in Users : CreateProjectAddMember(u)
    \/ \E u \in Users, p \in ProjectIds, v \in Users :
         inviteMember(u, p, v, "developer")
    \/ \E u \in Users, m \in project_members : removeMember(u, m)
    \/ \E u \in Users, p \in ProjectIds :
         handleSubmit(u, p, "t1", "task", "medium", "unassigned")
    \/ \E u \in Users, t \in tickets : handleAddComment(u, t)

SpecComments == Init /\ [][NextComments]_vars

\* Projects, memberships and tickets as created, under every store call the
\* policies on projects and project_members guard.
NextProjects ==
    \/ \E u \in Creators : CreateProjectInsert(u)
    \/ \E u \in Users : CreateProjectAddMember(u)
    \/ \E u \in Users, o \in Users : InsertProject(u, o)
    \/ \E u \in Users, p \in projects, n \in Names : updateProject(u, p, n)
    \/ \E u \in Users, p \in projects, o \in Users : UpdateProjectOwner(u, p, o)
    \/ \E u \in Users, p \in projects : DeleteProject(u, p)
    \/ \E u \in Users, p \in ProjectIds, v \in Users :
         inviteMember(u, p, v, "developer")
    \/ \E u \in Users, m \in project_members : removeMember(u, m)
    \/ \E u \in Users, m \in project_members, r \in user_role : UpdateMember(u, m, r)
    \/ \E u \in Users, p \in ProjectIds :
         handleSubmit(u, p, "t1", "task", "medium", "unassigned")

SpecProjects == Init /\ [][NextProjects]_vars

\* Invitations issued from several browser sessions, each split at its await.
NextInvite ==
    \/ \E u \in Creators : CreateProjectInsert(u)
    \/ \E u \in Users : CreateProjectAddMember(u)
    \/ \E s \in Sessions, u \in Users, p \in ProjectIds, v \in Users,
          r \in {"developer", "viewer"} : inviteMemberCheck(s, u, p, v, r)
    \/ \E s \in Sessions : inviteMemberInsert(s)
    \/ \E u \in Users, m \in project_members : removeMember(u, m)
    \/ \E u \in Users, p \in projects : DeleteProject(u, p)

SpecInvite == Init /\ [][NextInvite]_vars

\* The user signed in in browser session s of the boards that race.
BoardUser(s) == IF s = 1 THEN "A" ELSE "B"

\* Two boards, the owner's and a member's, dragging the cards of the same
\* project, each drag split at its await.
NextRace ==
    \/ \E u \in Creators : CreateProjectInsert(u)
    \/ \E u \in Users : CreateProjectAddMember(u)
    \/ \E u \in Users, p \in ProjectIds : inviteMember(u, p, "B", "developer")
    \/ \E u \in Users, m \in project_members : removeMember(u, m)
    \/ \E u \in Users, p \in ProjectIds, c \in {"B", "unassigned"} :
         handleSubmit(u, p, "t1", "task", "medium", c)
    \/ \E s \in Sessions, t \in tickets, v \in ticket_status :
         handleDragEndDrop(s, BoardUser(s), t, v)
    \/ \E s \in Sessions : handleDragEndUpdate(s)
    \/ \E u \in Users, p \in projects : DeleteProject(u, p)

SpecRace == Init /\ [][NextRace]_vars

\* Projects, memberships and tickets as created, and the pages that read them.
NextRead ==
    \/ \E u \in Creators : CreateProjectInsert(u)
    \/ \E u \in Users : CreateProjectAddMember(u)
    \/ \E u \in Users, p \in ProjectIds, v \in Users :
         inviteMember(u, p, v, "developer")
    \/ \E u \in Users, m \in project_members : removeMember(u, m)
    \/ \E u \in Users, p \in projects : DeleteProject(u, p)
    \/ \E u \in Users, p \in ProjectIds :
         handleSubmit(u, p, "t1", "task", "medium", "unassigned")
    \/ \E u \in Users, t \in tickets : handleAddComment(u, t)
    \/ \E u \in Users, p \in ProjectIds : fetchProject(u, p)

SpecRead == Init /\ [][NextRead]_vars

\* The state after A has created two projects on the dashboard, each with
\* A's admin row, and has submitted one unassigned ticket in each.
InitThreads ==
    /\ projects = {ProjectRow(1, "n1", "A"), ProjectRow(2, "n1", "A")}
    /\ project_members = {MemberRow(1, "A", "admin"), MemberRow(2, "A", "admin")}
    /\ tickets = {TicketRow(1, "t1", "task", "medium", "todo", 1, "A", Null),
                  TicketRow(2, "t1", "task", "medium", "todo", 2, "A", Null)}
    /\ comments = {}
    /\ nextProject = 3
    /\ nextTicket = 3
    /\ nextComment = 1
    /\ creating = [u \in Users |-> 0]
    /\ pending = [s \in Sessions |-> NoRequest]
    /\ local = NoLocal
    /\ last = Outcome("init", Null, 0, "ok")

\* Comments and replies on the tickets of two projects, and the deletions
\* that reach them.
NextThreads ==
    \/ \E u \in Users : inviteMember(u, 1, "B", "developer")
    \/ \E u \in Users, m \in project_members : removeMember(u, m)
    \/ \E u \in Users, t \in tickets : handleAddComment(u, t)
    \/ \E u \in Users, t \in tickets, c \in comments :
         InsertComment(u, t, c.id, "c1")
    \/ \E u \in Users, c \in comments, x \in Contents : UpdateComment(u, c, x)
    \/ \E u \in Users, c \in comments : DeleteComment(u, c)
    \/ \E u \in Users, p \in projects : DeleteProject(u, p)

SpecThreads == InitThreads /\ [][NextThreads]_vars

\* ==================================================================== claims
IsMemberOrOwner(u, p) == OwnerOf(p) = u \/ HasMember(p, u)

\* C1: for every user U and project id P, the resolver returns P exactly when
\* P is an existing project that U owns or for which a membership row (P, U)
\* exists; nothing stale survives the deletion of a project or a row.
C1_ResolverIsOwnerOrMember ==
    \A u \in Users, p \in ProjectIds :
        p \in get_user_project_ids(u) <=>
            \E q \in projects :
                /\ q.id = p
                /\ \/ q.owner_id = u
                   \/ \E m \in project_members : m.project_id = p /\ m.user_id = u

\* Witness of C1: a membership row was just removed; the owner has no row and
\* is still resolved, another member is resolved, a third user is not.
C1_Witness ==
    /\ last.op = "removeMember" /\ last.outcome = "ok"
    /\ \E p \in projects :
        /\ ~HasMember(p.id, p.owner_id)
        /\ p.id \in get_user_project_ids(p.owner_id)
        /\ \E u \in Users : u # p.owner_id /\ HasMember(p.id, u)
                            /\ p.id \in get_user_project_ids(u)
        /\ \E v \in Users : p.id \notin get_user_project_ids(v)

\* C2: a user can read a ticket exactly when the user owns the ticket's
\* project or holds a membership row for it.
C2_TicketReadIffAccess ==
    \A u \in Users, t \in tickets :
        (t \in VisibleTickets(u)) <=> IsMemberOrOwner(u, t.project_id)

\* Witness of C2: a ticket that an owner without a membership row and a
\* non-owner member can read, and a third user cannot.
C2_Witness ==
    \E t \in tickets :
        /\ ~HasMember(t.project_id, OwnerOf(t.project_id))
        /\ t \in VisibleTickets(OwnerOf(t.project_id))
        /\ \E u \in Users : u # OwnerOf(t.project_id) /\ HasMember(t.project_id, u)
                            /\ t \in VisibleTickets(u)
        /\ \E v \in Users : ~IsMemberOrOwner(v, t.project_id)
                            /\ t \notin VisibleTickets(v)

\* C3 (as claimed): a ticket insert by U into project P with reporter R is
\* accepted exactly when P is in AccessibleProjects(U) and R = U (looked at
\* while no createProject of U is between its two inserts).
C3_TicketInsertIffAccess ==
    \A u \in Users, p \in projects, r \in Users :
        creating[u] = 0 =>
        ((TicketInsertOutcome(u, TicketRow(nextTicket, "t1", "task", "medium",
                                          "todo", p.id, r, Null)) = "ok")
        <=> (p.id \in get_user_project_ids(u) /\ r = u))

\* C4: an update of ticket T (drag on the board or save of the dialog) by a
\* user who is neither T's assignee nor the owner of T's project is not
\* accepted and leaves the tickets unchanged, also for members and the reporter.
C4_UpdateDeniedForOthers ==
    [][last'.op \in {"handleDragEnd", "handleUpdateTicket"} =>
        \A t \in tickets :
            (/\ t.id = last'.target
             /\ last'.caller # t.assignee_id
             /\ last'.caller # OwnerOf(t.project_id))
            => (last'.outcome # "ok" /\ tickets' = tickets)]_vars

\* Witness of C4: the dialog's save by the ticket's reporter, a member who is
\* neither assignee nor owner, was filtered out.
C4_Witness ==
    /\ last.op = "handleUpdateTicket" /\ last.outcome = "filtered"
    /\ \E t \in tickets :
        /\ t.id = last.target
        /\ t.reporter_id = last.caller
        /\ HasMember(t.project_id, last.caller)
        /\ last.caller # t.assignee_id
        /\ last.caller # OwnerOf(t.project_id)

\* C5 (as claimed): a status update from any status to any status, issued by
\* the ticket's assignee or by the project owner, is accepted and leaves the
\* ticket with the new status.
C5_StatusUpdateByAssigneeOrOwner ==
    [][last'.op = "handleDragEnd" =>
        \A t \in tickets, s \in ticket_status :
            (/\ t.id = last'.target
             /\ \/ last'.caller = t.assignee_id
                \/ last'.caller = OwnerOf(t.project_id)
             /\ handleDragEnd(last'.caller, t, s))
            => (last'.outcome = "ok" /\ [t EXCEPT !.status = s] \in tickets')]_vars

\* C5 (amended): a status update from any status to any status, issued by the
\* project owner, or by the ticket's assignee while the assignee owns the
\* project or holds a membership row for it, is accepted and leaves the
\* ticket with the new status.
C5_StatusUpdateWithAccess ==
    [][last'.op = "handleDragEnd" =>
        \A t \in tickets, s \in ticket_status :
            (/\ t.id = last'.target
             /\ \/ last'.caller = t.assignee_id
                \/ last'.caller = OwnerOf(t.project_id)
             /\ IsMemberOrOwner(last'.caller, t.project_id)
             /\ handleDragEnd(last'.caller, t, s))
            => (last'.outcome = "ok" /\ [t EXCEPT !.status = s] \in tickets')]_vars

\* Witness of C5: a drag by an assignee who is a member and not the owner was
\* accepted and the ticket is now done.
C5_Witness ==
    /\ last.op = "handleDragEnd" /\ last.outcome = "ok"
    /\ \E t \in tickets :
        /\ t.id = last.target
        /\ t.status = "done"
        /\ t.assignee_id = last.caller
        /\ HasMember(t.project_id, last.caller)
        /\ last.caller # OwnerOf(t.project_id)

\* The requests the edit dialog can form for ticket t with a well-formed assignee.
WellFormedEdits ==
    [title : Titles, type : ticket_type, priority : ticket_priority,
     status : ticket_status, assignee_id : Users \cup {""}]

\* C6 (as claimed): an update that also changes title, type, priority or
\* assignee is accepted exactly when the status-only update by the same user
\* would be.
C6_FieldUpdateAsStatusUpdate ==
    \A u \in Users, t \in tickets, e \in WellFormedEdits :
        (TicketUpdateOutcome(u, t, EditedRow(t, e)) = "ok")
        <=> (TicketUpdateOutcome(u, t, [t EXCEPT !.status = e.status]) = "ok")

\* C7 (as claimed): no membership row (P, U) has U = P.owner.
C7_NoOwnerMemberRow ==
    \A m \in project_members : m.user_id # OwnerOf(m.project_id)

\* C7 (amended): the owner's access does not rest on a membership row: in
\* every reachable state the owner of P resolves P and sees it, with or
\* without a row (P, owner); such a row may exist, and createProject's second
\* insert, when accepted, stores (P, creator, admin).
C7_OwnerAccessWithOrWithoutRow ==
    /\ [](\A p \in projects :
            /\ p.id \in get_user_project_ids(p.owner_id)
            /\ p \in VisibleProjects(p.owner_id))
    /\ [][(last'.op = "createProject.member" /\ last'.outcome = "ok") =>
            /\ MemberRow(last'.target, last'.caller, "admin") \in project_members'
            /\ OwnerOf(last'.target) = last'.caller]_vars

\* Witness of C7: createProject's second insert was accepted and the owner
\* now has an admin row.
C7_Witness ==
    /\ last.op = "createProject.member" /\ last.outcome = "ok"
    /\ \E p \in projects :
        /\ p.id = last.target
        /\ MemberRow(p.id, p.owner_id, "admin") \in project_members

\* C8 (as claimed): U may create a comment on T with author A exactly when U
\* can read T and A = U, and may read a comment on T exactly when U can read T
\* (looked at while no createProject of U is between its two inserts).
C8_CommentsGatedByTicketRead ==
    \A u \in Users, t \in tickets :
        creating[u] = 0 =>
        /\ \A a \in Users :
            (CommentInsertOutcome(u, CommentRow(nextComment, t.id, a, NullId, "c1")) = "ok")
            <=> (t \in VisibleTickets(u) /\ a = u)
        /\ \A c \in comments :
            c.ticket_id = t.id => (c \in VisibleComments(u) <=> t \in VisibleTickets(u))

\* C9: a direct insert of the row (P, V) by caller U passes the policies
\* exactly when U owns P or V = U; a caller who is neither gets an error and
\* the table is unchanged; an admitted insert of a new pair into an existing
\* project stores the row.
C9_MemberInsertOwnerOrSelf ==
    [][last'.op = "insertMember" =>
        \A p \in ProjectIds, v \in Users :
            InsertMember(last'.caller, p, v, "developer") =>
                LET admitted == OwnerOf(p) = last'.caller \/ v = last'.caller
                IN /\ (last'.outcome = "rls_error") <=> ~admitted
                   /\ ~admitted => project_members' = project_members
                   /\ (admitted /\ HasProject(p) /\ ~HasMember(p, v))
                        => MemberRow(p, v, "developer") \in project_members']_vars

\* Witness of C9: a non-owner member tried to add another user and was refused.
C9_Witness ==
    /\ last.op = "insertMember" /\ last.outcome = "rls_error"
    /\ HasProject(last.target)
    /\ HasMember(last.target, last.caller)
    /\ last.caller # OwnerOf(last.target)
    /\ \E v \in Users : v # last.caller /\ ~HasMember(last.target, v)

\* C10 (as claimed): a user gains access to a project only by creating it or
\* through an operation of the project's owner.
C10_AccessOnlyByOwnerAction ==
    [][\A u \in Users, p \in ProjectIds :
        (p \notin get_user_project_ids(u) /\ p \in get_user_project_ids(u)')
        => \E q \in projects' :
              q.id = p /\ (q.owner_id = u \/ q.owner_id = last'.caller)]_vars

\* C11: a removal or a role change of a membership row of P by a caller who
\* is not the owner of P is not accepted and leaves project_members
\* unchanged: a member can remove neither another member nor the own row and
\* can change no role; an accepted removal or change is the owner's.
C11_MembersManagedByOwnerOnly ==
    [][last'.op \in {"removeMember", "updateMember"} =>
        /\ last'.caller # OwnerOf(last'.target)
             => (last'.outcome # "ok" /\ project_members' = project_members)
        /\ project_members' # project_members
             => last'.caller = OwnerOf(last'.target)]_vars

\* Witness of C11: a member who is not the owner tried to remove the own
\* membership row; nothing was removed.
C11_Witness ==
    /\ last.op = "removeMember" /\ last.outcome = "filtered"
    /\ HasMember(last.target, last.caller)
    /\ HasProject(last.target)
    /\ last.caller # OwnerOf(last.target)

\* What user u can read and create in project p: whether the resolver returns
\* p, the rows of p that pass the SELECT policies, and whether an insert of a
\* ticket or of a comment by u is accepted.
AccessView(u, p) ==
    [resolved |-> p \in get_user_project_ids(u),
     project |-> {q \in VisibleProjects(u) : q.id = p},
     members |-> {m \in VisibleMembers(u) : m.project_id = p},
     tickets |-> {t \in VisibleTickets(u) : t.project_id = p},
     comments |-> {c \in VisibleComments(u) :
                     \E t \in tickets : t.id = c.ticket_id /\ t.project_id = p},
     createTicket |-> TicketInsertOutcome(u, TicketRow(nextTicket, "t1", "task",
                          "medium", "todo", p, u, Null)) = "ok",
     createComment |-> {t \in tickets :
                          /\ t.project_id = p
                          /\ CommentInsertOutcome(u, CommentRow(nextComment, t.id,
                                                   u, NullId, "c1")) = "ok"}]

NoAccess ==
    [resolved |-> FALSE, project |-> {}, members |-> {}, tickets |-> {},
     comments |-> {}, createTicket |-> FALSE, createComment |-> {}]

\* C12 (as claimed): when the membership row (P, U) is removed and U is not
\* the owner of P, in the next state U resolves, reads and creates nothing in
\* P; when U is the owner of P, what U resolves, reads and may create in P is
\* the same as before (the removed row aside).
C12_RemovalRevokesAccess ==
    [][(last'.op = "removeMember" /\ last'.outcome = "ok") =>
        \A m \in project_members \ project_members' :
            IF m.user_id # OwnerOf(m.project_id)
            THEN AccessView(m.user_id, m.project_id)' = NoAccess
            ELSE AccessView(m.user_id, m.project_id)' =
                   [AccessView(m.user_id, m.project_id)
                      EXCEPT !.members = @ \ {m}]]_vars

\* C13: in every reachable state project_members holds at most one row per
\* (project, user) pair; an invitation whose pair already has a row when its
\* lookup or its insert is answered ends with an error and leaves the table
\* unchanged, also when it passed the lookup before another invitation of the
\* same pair inserted.
C13_UniqueMembership ==
    /\ [](\A m1, m2 \in project_members :
            (m1.project_id = m2.project_id /\ m1.user_id = m2.user_id) => m1 = m2)
    /\ [][/\ last'.outcome = "already_member" => project_members' = project_members
          /\ \A s \in Sessions :
                (/\ pending[s].op = "inviteMember"
                 /\ pending'[s] = NoRequest
                 /\ HasMember(pending[s].target, pending[s].user))
                => (/\ last'.outcome \in {"conflict", "rls_error"}
                    /\ project_members' = project_members)]_vars

\* Witness of C13: an invitation that had passed its lookup was refused by the
\* store because another invitation had inserted the pair meanwhile.
C13_Witness ==
    /\ last.op = "inviteMember" /\ last.outcome = "conflict"
    /\ last.caller = OwnerOf(last.target)
    /\ \E m \in project_members :
          m.project_id = last.target /\ m.role \in {"developer", "viewer"}

\* C14: updateProject's update and the deletion of project P are admitted
\* exactly for P's owner: issued by any other user, member or not, they are
\* filtered out and leave P, its memberships, tickets and comments unchanged;
\* issued by the owner they pass the policies, and the update is stored.
C14_ProjectWriteByOwnerOnly ==
    [][last'.op \in {"updateProject", "deleteProject"} =>
        /\ last'.caller # OwnerOf(last'.target)
             => (/\ last'.outcome = "filtered"
                 /\ UNCHANGED <<projects, project_members, tickets, comments>>)
        /\ last'.caller = OwnerOf(last'.target)
             => (/\ last'.outcome \notin {"filtered", "rls_error"}
                 /\ (last'.op = "updateProject") => (last'.outcome = "ok")
                 /\ (last'.op = "deleteProject" /\ last'.outcome = "ok")
                      => ~(\E q \in projects' : q.id = last'.target))]_vars

\* Witness of C14: a member who is not the owner tried to delete a project
\* that has a ticket; the project is still there.
C14_Witness ==
    /\ last.op = "deleteProject" /\ last.outcome = "filtered"
    /\ HasProject(last.target)
    /\ HasMember(last.target, last.caller)
    /\ last.caller # OwnerOf(last.target)
    /\ \E t \in tickets : t.project_id = last.target

\* C15: a project appears only with the caller of the insert as its owner,
\* and no step, the owner's own updates included, changes the owner of an
\* existing project.
C15_OwnerPermanent ==
    [][/\ \A q \in projects' : ~HasProject(q.id) => q.owner_id = last'.caller
       /\ \A p \in projects, q \in projects' :
             q.id = p.id => q.owner_id = p.owner_id]_vars

\* Witness of C15: the owner tried to hand the project to another user and
\* the store refused the new row.
C15_Witness ==
    /\ last.op = "updateProjectOwner" /\ last.outcome = "rls_error"
    /\ last.caller = OwnerOf(last.target)

\* C16 (as claimed): the deletion of project P by its owner succeeds, and in
\* the resulting state P, its memberships, its tickets and their comments are
\* gone and no user resolves P, whatever replies the comments carry.
C16_OwnerDeleteCascades ==
    [][(last'.op = "deleteProject" /\ last'.caller = OwnerOf(last'.target)) =>
        /\ last'.outcome = "ok"
        /\ \A q \in projects' : q.id # last'.target
        /\ \A m \in project_members' : m.project_id # last'.target
        /\ \A t \in tickets' : t.project_id # last'.target
        /\ \A c \in comments' : \E t \in tickets' : t.id = c.ticket_id
        /\ \A u \in Users : last'.target \notin get_user_project_ids(u)']_vars

\* C17 (as claimed): an edit of comment c by user u is accepted exactly when
\* u is the author of c, and so is a deletion of c by u.
C17_CommentWriteIffAuthor ==
    \A u \in Users, c \in comments :
        /\ \A x \in Contents :
            (CommentUpdateOutcome(u, c, [c EXCEPT !.content = x]) = "ok")
            <=> (u = c.author_id)
        /\ (CommentDeleteOutcome(u, c) = "ok") <=> (u = c.author_id)

\* C18: a caller without access to project id P gets from opening P, from
\* reading its tickets and from reading their comments the same result and
\* the same message whether P exists or not: the result equals the result
\* for an id that no project has, and it does not change when P, a ticket or
\* a comment of P comes into or goes out of existence.
C18_DeniedLooksLikeNotFound ==
    /\ [](\A u \in Users, p \in ProjectIds, n \in ProjectIds \cup {nextProject} :
            (HasProject(p) /\ p \notin get_user_project_ids(u) /\ ~HasProject(n))
            => /\ fetchProjectResult(u, p) = fetchProjectResult(u, n)
               /\ fetchTickets(u, p) = fetchTickets(u, n))
    /\ [][\A u \in Users, p \in ProjectIds :
            (p \notin get_user_project_ids(u) /\ p \notin get_user_project_ids(u)')
            => /\ fetchProjectResult(u, p)' = fetchProjectResult(u, p)
               /\ fetchTickets(u, p)' = fetchTickets(u, p)
               /\ \A t \in TicketIds :
                     (\A x \in tickets \cup tickets' : x.id = t => x.project_id = p)
                     => fetchComments(u, t)' = fetchComments(u, t)]_vars

\* Witness of C18: a user opened a project that exists, with a ticket and a
\* comment, and to which the user has no access.
C18_Witness ==
    /\ last.op = "fetchProject"
    /\ last.outcome = "You do not have access to this project"
    /\ HasProject(last.target)
    /\ \E t \in tickets : t.project_id = last.target
                           /\ \E c \in comments : c.ticket_id = t.id

\* C19 (as claimed): whatever argument a caller U passes to the resolver, the
\* returned set is the set of projects that U owns or is a member of.
C19_ResolverOwnSetOnly ==
    \A u \in Users, user_uuid \in Users \cup {Null} :
        rpc_get_user_project_ids(u, user_uuid) = get_user_project_ids(u)

\* C20: the stored status of every ticket is one of the three legal values;
\* when the store answers a prepared status update of a caller who is the
\* project owner, or the assignee with access to the project, the update is
\* accepted whatever was written since the card was picked up, and the
\* ticket then carries the status of this update: of two racing updates the
\* one answered last determines the status.
C20_LastWriteWins ==
    /\ [](\A t \in tickets : t.status \in ticket_status)
    /\ [][\A s \in Sessions :
            (pending[s].op = "handleDragEnd" /\ pending'[s] = NoRequest) =>
                \A t \in tickets :
                    (/\ t.id = pending[s].target
                     /\ IsMemberOrOwner(pending[s].caller, t.project_id)
                     /\ \/ pending[s].caller = t.assignee_id
                        \/ pending[s].caller = OwnerOf(t.project_id))
                    => (/\ last'.outcome = "ok"
                        /\ [t EXCEPT !.status = pending[s].value] \in tickets'
                        /\ \A x \in tickets' :
                              x.id = t.id => x.status = pending[s].value)]_vars

\* Witness of C20: two boards picked up the same card while it had the same
\* status and dropped it on different columns; the first update was accepted
\* and the second, by another authorized user, is still to be answered.
C20_Witness ==
    /\ last.op = "handleDragEnd" /\ last.outcome = "ok"
    /\ \E s \in Sessions, t \in tickets :
        /\ pending[s].op = "handleDragEnd"
        /\ pending[s].target = t.id /\ last.target = t.id
        /\ pending[s].caller # last.caller
        /\ pending[s].seen # t.status
        /\ pending[s].value # t.status
        /\ pending[s].caller = t.assignee_id
        /\ HasMember(t.project_id, pending[s].caller)
        /\ last.caller = OwnerOf(t.project_id)

\* --------------------------------------------- moving tickets and comments
\* UPDATE tickets SET project_id = p WHERE id = t.id, by any signed-in client.
UpdateTicketProject(user, t, p) ==
    /\ t \in tickets
    /\ LET new == [t EXCEPT !.project_id = p]
           out == IF TicketUpdateOutcome(user, t, new) # "ok"
                    THEN TicketUpdateOutcome(user, t, new)
                  ELSE IF ~HasProject(p) THEN "fk_error"
                  ELSE "ok"
       IN /\ tickets' = IF out = "ok" THEN (tickets \ {t}) \cup {new} ELSE tickets
          /\ last' = Outcome("updateTicketProject", user, t.id, out)
    /\ UNCHANGED <<projects, project_members, comments, nextProject, nextTicket,
                   nextComment, creating, pending, local>>

\* UPDATE comments SET ticket_id = t WHERE id = c.id, by any signed-in client.
UpdateCommentTicket(user, c, t) ==
    /\ c \in comments
    /\ LET new == [c EXCEPT !.ticket_id = t]
           out == IF CommentUpdateOutcome(user, c, new) # "ok"
                    THEN CommentUpdateOutcome(user, c, new)
                  ELSE IF ~(\E x \in tickets : x.id = t) THEN "fk_error"
                  ELSE "ok"
       IN /\ comments' = IF out = "ok" THEN (comments \ {c}) \cup {new} ELSE comments
          /\ last' = Outcome("updateCommentTicket", user, c.id, out)
    /\ UNCHANGED <<projects, project_members, tickets, nextProject, nextTicket,
                   nextComment, creating, pending, local>>

\* Two projects with a ticket each: the dialog's saves (of the assignee) and
\* comments, and the updates of the two references that the policies judge.
NextMove ==
    \/ \E u \in Users : inviteMember(u, 1, "B", "developer")
    \/ \E u \in Users, t \in {x \in tickets : x.id = 1} :
         \E e \in {x \in EditedTickets(u, t) : x.title = "t1" /\ x.status = t.status} :
            handleUpdateTicket(u, t, e)
    \/ \E u \in Users, t \in tickets : handleAddComment(u, t)
    \/ \E u \in Users, t \in tickets, p \in 1..2 : UpdateTicketProject(u, t, p)
    \/ \E u \in Users, c \in comments, t \in 1..2 : UpdateCommentTicket(u, c, t)

SpecMove == InitThreads /\ [][NextMove]_vars

\* C21: a ticket's project and a comment's ticket never change: every step
\* leaves project_id of each remaining ticket and ticket_id of each remaining
\* comment as they were.
C21_ReferencesImmutable ==
    [][/\ \A t \in tickets : \A x \in tickets' :
              x.id = t.id => x.project_id = t.project_id
       /\ \A c \in comments : \A x \in comments' :
              x.id = c.id => x.ticket_id = c.ticket_id]_vars

\* ------------------------------------------------------------ C22
\* Every allow/deny decision of the policies in the current state, for every
\* user: on the existing rows (membership rows named by project and user,
\* not by role) and on every row a client could try to insert.
Decisions ==
    [u \in Users |->
       [resolver |-> get_user_project_ids(u),
        projectsSelect |-> {p.id : p \in VisibleProjects(u)},
        projectsUpdate |-> {p.id : p \in {q \in projects : ProjectsUpdateUsing(u, q)}},
        projectsDelete |-> {p.id : p \in {q \in projects : ProjectsDeleteUsing(u, q)}},
        membersSelect |-> {<<m.project_id, m.user_id>> : m \in VisibleMembers(u)},
        membersInsert |-> {<<p, v, r>> \in ProjectIds \X Users \X user_role :
                              MembersInsertCheck(u, MemberRow(p, v, r))},
        membersUpdate |-> {<<m.project_id, m.user_id>> :
                              m \in {x \in project_members : MembersUpdateUsing(u, x)}},
        membersDelete |-> {<<m.project_id, m.user_id>> :
                              m \in {x \in project_members : MembersDeleteUsing(u, x)}},
        ticketsSelect |-> {t.id : t \in VisibleTickets(u)},
        ticketsInsert |-> {<<p, v>> \in ProjectIds \X Users :
                              TicketsInsertCheck(u, TicketRow(nextTicket, "t1", "task",
                                                 "medium", "todo", p, v, Null))},
        ticketsUpdate |-> {t.id : t \in {x \in tickets : TicketsUpdateUsing(u, x)}},
        ticketsDelete |-> {t.id : t \in {x \in tickets : TicketsDeleteUsing(u, x)}},
        commentsSelect |-> {c.id : c \in VisibleComments(u)},
        commentsInsert |-> {<<t, v>> \in TicketIds \X Users :
                              CommentsInsertCheck(u, CommentRow(nextComment, t, v,
                                                                NullId, "c1"))},
        commentsUpdate |-> {c.id : c \in {x \in comments : CommentsUpdateUsing(u, x)}},
        commentsDelete |-> {c.id : c \in {x \in comments : CommentsDeleteUsing(u, x)}}]]

\* The membership rows without their role.
MembersWithoutRole == {<<m.project_id, m.user_id>> : m \in project_members}

\* C22: the role of a membership row decides nothing: a step after which the
\* tables differ only in the role values of membership rows leaves every
\* allow/deny decision of every user as it was.
C22_RoleNotLoadBearing ==
    [][(/\ project_members' # project_members
        /\ MembersWithoutRole' = MembersWithoutRole
        /\ UNCHANGED <<projects, tickets, comments>>)
       => Decisions' = Decisions]_vars

\* Witness of C22: the owner has just turned the row of another member, in a
\* project that has a ticket, into a viewer's row.
C22_Witness ==
    /\ last.op = "updateMember" /\ last.outcome = "ok"
    /\ \E m \in project_members, t \in tickets :
        /\ m.project_id = last.target /\ t.project_id = m.project_id
        /\ m.role = "viewer"
        /\ m.user_id # OwnerOf(m.project_id)

\* ---------------------------------------------------- the order of comments
\* INSERT INTO comments with the creation timestamp ts: a value the client
\* puts into the created_at column, or NOW() of an insert that falls into the
\* clock tick of an earlier one.
InsertCommentAt(user, t, ts) ==
    /\ t \in tickets
    /\ LET row == [CommentRow(nextComment, t.id, user, NullId, "c1")
                     EXCEPT !.created_at = ts]
           out == CommentInsertOutcome(user, row)
       IN /\ out = "ok" => nextComment <= MaxComments
          /\ IF out = "ok"
             THEN /\ comments' = comments \cup {row}
                  /\ nextComment' = nextComment + 1
             ELSE UNCHANGED <<comments, nextComment>>
          /\ last' = Outcome("insertComment", user, t.id, out)
    /\ UNCHANGED <<projects, project_members, tickets, nextProject, nextTicket,
                   creating, pending, local>>

\* .order('created_at', { ascending: true }): the sequences the store may
\* answer with for a set of rows; rows of equal created_at come in any order.
OrderByCreatedAt(rows) ==
    {s \in [1..Cardinality(rows) -> rows] :
        /\ \A i, j \in 1..Cardinality(rows) : i # j => s[i] # s[j]
        /\ \A i, j \in 1..Cardinality(rows) :
              i < j => s[i].created_at <= s[j].created_at}

\* fetchComments of the open dialog of ticket t: setComments(data).
setComments(user, t) ==
    /\ t \in tickets
    /\ \E data \in OrderByCreatedAt(fetchComments(user, t.id)) :
         local' = [local EXCEPT !.comments = data]
    /\ last' = Outcome("fetchComments", user, t.id, "ok")
    /\ UNCHANGED <<projects, project_members, tickets, comments, nextProject,
                   nextTicket, nextComment, creating, pending>>

\* Comments written through the dialog and through the store's API, and the
\* dialog's display of them.
NextOrder ==
    \/ \E u \in Users, t \in tickets : handleAddComment(u, t)
    \/ \E u \in Users, t \in tickets, ts \in 1..MaxComments : InsertCommentAt(u, t, ts)
    \/ \E u \in Users, c \in comments, x \in Contents : UpdateComment(u, c, x)
    \/ \E u \in Users, c \in comments : DeleteComment(u, c)
    \/ \E u \in Users, t \in tickets : setComments(u, t)

SpecOrder == InitThreads /\ [][NextOrder]_vars

\* C23: the comments shown in the dialog are in ascending order of creation
\* timestamp, and comments of equal timestamp in ascending order of id.
C23_DisplayOrderTotal ==
    \A i, j \in 1..Len(local.comments) :
        i < j => \/ local.comments[i].created_at < local.comments[j].created_at
                 \/ /\ local.comments[i].created_at = local.comments[j].created_at
                    /\ local.comments[i].id < local.comments[j].id

\* ------------------------------------------------------------ C24
\* C24: whatever is chosen in the create-ticket or the edit-ticket dialog,
\* the assignee_id the dialog sends is null or the id of a member of the
\* ticket's project.
C24_AssigneeNullOrMember ==
    /\ \A u \in Users : \A p \in VisibleProjects(u) :
          \A choice \in AssigneeChoices(u, p.id) :
             \/ SubmittedAssignee(choice) = Null
             \/ HasMember(p.id, SubmittedAssignee(choice))
    /\ \A u \in Users : \A t \in VisibleTickets(u) :
          \A edited \in EditedTickets(u, t) :
             \/ EditedRow(t, edited).assignee_id = Null
             \/ HasMember(t.project_id, EditedRow(t, edited).assignee_id)

\* ------------------------------------------------------------ C25
\* C25: write access to a ticket implies read access: a step that changes a
\* field of a ticket is taken by a caller whose accessible projects, before
\* the step, include the ticket's project.
C25_WriteImpliesRead ==
    [][\A t \in tickets : \A x \in tickets' :
          (x.id = t.id /\ x # t) =>
              t.project_id \in get_user_project_ids(last'.caller)]_vars

\* Witness of C25: the assignee of a ticket, who is neither a member nor the
\* owner of its project, has dropped the card on another column and the
\* store has changed nothing.
C25_Witness ==
    /\ last.op = "handleDragEnd" /\ last.outcome = "filtered"
    /\ \E t \in tickets :
        /\ t.id = last.target
        /\ t.assignee_id = last.caller
        /\ ~IsMemberOrOwner(last.caller, t.project_id)

\* ------------------------------------------------------- the open TicketDialog
\* openTicketDialog of TicketList: the dialog is mounted with a row of the
\* fetched list as its ticket prop, and editedTicket is set from it.
openTicketDialog(user, t) ==
    /\ local.dialog = {}
    /\ t \in VisibleTickets(user)
    /\ local' = [local EXCEPT !.dialog =
                   {[user |-> user, ticket |-> t,
                     editedTicket |->
                        [title |-> t.title, type |-> t.type, priority |-> t.priority,
                         status |-> t.status,
                         assignee_id |-> IF t.assignee_id = Null THEN ""
                                         ELSE t.assignee_id]]}]
    /\ last' = Outcome("openTicketDialog", user, t.id, "ok")
    /\ UNCHANGED <<projects, project_members, tickets, comments, nextProject,
                   nextTicket, nextComment, creating, pending>>

\* setEditedTicket from the title input or the status select of the dialog.
setEditedTicket(title, status) ==
    /\ \E d \in local.dialog :
         /\ <<title, status>> # <<d.editedTicket.title, d.editedTicket.status>>
         /\ local' = [local EXCEPT !.dialog =
                        {[d EXCEPT !.editedTicket.title = title,
                                   !.editedTicket.status = status]}]
         /\ last' = Outcome("setEditedTicket", d.user, d.ticket.id, "ok")
    /\ UNCHANGED <<projects, project_members, tickets, comments, nextProject,
                   nextTicket, nextComment, creating, pending>>

\* handleUpdateTicket of the open dialog, on a ticket that is still stored:
\* the six columns of editedTicket WHERE id = ticket.id; unless the store
\* answers with an error, onUpdate closes the dialog.
handleUpdateTicketDialog ==
    /\ \E d \in local.dialog : \E t \in tickets :
         /\ t.id = d.ticket.id
         /\ LET new == EditedRow(t, d.editedTicket)
                out == TicketUpdateOutcome(d.user, t, new)
            IN /\ tickets' = IF out = "ok" THEN (tickets \ {t}) \cup {new} ELSE tickets
               /\ local' = IF out \in {"ok", "filtered"}
                             THEN [local EXCEPT !.dialog = {}] ELSE local
               /\ last' = Outcome("handleUpdateTicket", d.user, t.id, out)
    /\ UNCHANGED <<projects, project_members, comments, nextProject, nextTicket,
                   nextComment, creating, pending>>

\* onClose of the dialog.
onClose ==
    /\ local.dialog # {}
    /\ local' = [local EXCEPT !.dialog = {}]
    /\ last' = Outcome("onClose", Null, 0, "ok")
    /\ UNCHANGED <<projects, project_members, tickets, comments, nextProject,
                   nextTicket, nextComment, creating, pending>>

\* One browser with the ticket dialog, and the boards of all users.
NextDialog ==
    \/ \E u \in Users : inviteMember(u, 1, "B", "developer")
    \/ \E u \in Users, t \in tickets : openTicketDialog(u, t)
    \/ \E title \in Titles, s \in ticket_status : setEditedTicket(title, s)
    \/ handleUpdateTicketDialog
    \/ onClose
    \/ \E u \in Users, t \in tickets, s \in ticket_status : handleDragEnd(u, t, s)

SpecDialog == InitThreads /\ [][NextDialog]_vars

\* C26: a save of the dialog in which only the title was edited leaves the
\* stored status, priority, type and assignee of the ticket as they were
\* immediately before the save.
C26_TitleSaveChangesTitleOnly ==
    [][\A d \in local.dialog :
          (/\ last'.op = "handleUpdateTicket"
           /\ local'.dialog = {}
           /\ d.editedTicket.title # d.ticket.title
           /\ d.editedTicket.status = d.ticket.status
           /\ d.editedTicket.type = d.ticket.type
           /\ d.editedTicket.priority = d.ticket.priority)
          => \A t \in tickets : \A x \in tickets' :
                x.id = t.id => /\ x.status = t.status
                               /\ x.priority = t.priority
                               /\ x.type = t.type
                               /\ x.assignee_id = t.assignee_id]_vars

\* ------------------------------------------------------- deletes and references
\* DELETE FROM tickets WHERE id = t.id, by any signed-in client: the policies,
\* then the cascade to the ticket's comments.
DeleteTicket(user, t) ==
    /\ t \in tickets
    /\ LET goneComments == CommentsOfTickets({t})
           out == IF ~(TicketsSelectUsing(user, t) /\ TicketsDeleteUsing(user, t))
                  THEN "filtered"
                  ELSE IF CascadeBlocked(goneComments) THEN "fk_error"
                  ELSE "ok"
       IN /\ IF out = "ok"
             THEN /\ tickets' = tickets \ {t}
                  /\ comments' = comments \ goneComments
             ELSE UNCHANGED <<tickets, comments>>
          /\ last' = Outcome("deleteTicket", user, t.id, out)
    /\ UNCHANGED <<projects, project_members, nextProject, nextTicket, nextComment,
                   creating, pending, local>>

\* Rows that refer to each other, and every delete and re-pointing update of
\* them that a signed-in client can send.
NextIntegrity ==
    \/ \E u \in Users : inviteMember(u, 1, "B", "developer")
    \/ \E u \in Users, t \in tickets : handleAddComment(u, t)
    \/ \E u \in Users, t \in tickets, c \in comments :
         InsertComment(u, t, c.id, "c1")
    \/ \E u \in Users, c \in comments, t \in 1..2 : UpdateCommentTicket(u, c, t)
    \/ \E u \in Users, c \in comments : DeleteComment(u, c)
    \/ \E u \in Users, t \in tickets : DeleteTicket(u, t)
    \/ \E u \in Users, p \in projects : DeleteProject(u, p)

SpecIntegrity == InitThreads /\ [][NextIntegrity]_vars

\* C27: every membership row and every ticket refers to a stored project,
\* every comment to a stored ticket, and every reply to a stored comment.
C27_ReferentialIntegrity ==
    /\ \A m \in project_members : HasProject(m.project_id)
    /\ \A t \in tickets : HasProject(t.project_id)
    /\ \A c \in comments : \E t \in tickets : t.id = c.ticket_id
    /\ \A c \in comments :
          c.parent_id # NullId => \E r \in comments : r.id = c.parent_id

\* Witness of C27: the owner's delete of a ticket was refused because a reply
\* on another ticket refers to one of its comments.
C27_Witness ==
    /\ last.op = "deleteTicket" /\ last.outcome = "fk_error"
    /\ \E c \in comments, r \in comments :
        /\ c.ticket_id = last.target
        /\ r.parent_id = c.id
        /\ r.ticket_id # last.target

\* ------------------------------------------------------- the board's local list
\* fetchTickets of the board of project projectId, opened by user:
\* setTickets(data).
setTickets(user, projectId) ==
    /\ local' = [local EXCEPT !.user = user, !.tickets = fetchTickets(user, projectId)]
    /\ last' = Outcome("fetchTickets", user, projectId, "ok")
    /\ UNCHANGED <<projects, project_members, tickets, comments, nextProject,
                   nextTicket, nextComment, creating, pending>>

\* The store's answer to handleDragEnd's update of the card t of the local
\* list: the stored row of that id, if there still is one, is judged.
DragOutcome(user, t, newStatus) ==
    IF \E x \in tickets : x.id = t.id
    THEN LET old == CHOOSE x \in tickets : x.id = t.id
         IN TicketUpdateOutcome(user, old, [old EXCEPT !.status = newStatus])
    ELSE "filtered"

\* handleDragEnd on the board: the card t of the local list is dropped on
\* destination ("none": outside every column), at the index it came from
\* or at another one.  Without an error from the store the local list is
\* updated.
handleDragEndBoard(t, destination, sameIndex) ==
    /\ t \in local.tickets
    /\ IF destination = "none" \/ (destination = t.status /\ sameIndex)
       THEN /\ last' = Outcome("handleDragEnd", local.user, t.id, "no_write")
            /\ UNCHANGED <<tickets, local>>
       ELSE LET out == DragOutcome(local.user, t, destination)
            IN /\ tickets' =
                    IF out = "ok"
                    THEN {IF x.id = t.id THEN [x EXCEPT !.status = destination] ELSE x :
                            x \in tickets}
                    ELSE tickets
               /\ local' =
                    IF out \in {"ok", "filtered"}
                    THEN [local EXCEPT !.tickets =
                            {IF x.id = t.id THEN [x EXCEPT !.status = destination] ELSE x :
                               x \in local.tickets}]
                    ELSE local
               /\ last' = Outcome("handleDragEnd", local.user, t.id, out)
    /\ UNCHANGED <<projects, project_members, comments, nextProject, nextTicket,
                   nextComment, creating, pending>>

\* The board of one browser, with members invited and removed meanwhile.
NextBoard ==
    \/ \E u \in Users : inviteMember(u, 1, "B", "developer")
    \/ \E u \in Users, m \in project_members : removeMember(u, m)
    \/ \E u \in Users, p \in 1..2 : setTickets(u, p)
    \/ \E t \in local.tickets, d \in ticket_status \cup {"none"}, b \in BOOLEAN :
         handleDragEndBoard(t, d, b)

SpecBoard == InitThreads /\ [][NextBoard]_vars

\* C28: on a drop, the board's local list changes only when the store has
\* accepted the update; a drop that issues no write, and an update the store
\* does not accept, leave the stored tickets and the local list as they were.
C28_LocalAfterAccepted ==
    [][last'.op = "handleDragEnd" =>
          /\ local'.tickets # local.tickets => last'.outcome = "ok"
          /\ last'.outcome # "ok" => (tickets' = tickets /\ local'.tickets = local.tickets)]_vars

\* ------------------------------------------------- the Project page, step by step
\* The route changes to /project/projectId and the effect starts fetchProject:
\* setLoading(true), setError(null), and the rpc is sent.  The call keeps the
\* projectId it was started with; the project in state is left as it is.
fetchProjectStart(s, user, projectId) ==
    /\ pending[s] = NoRequest
    /\ local.user \in {Null, user}
    /\ local.projectId # projectId
    /\ pending' = [pending EXCEPT ![s] =
                     Request("fetchProject", user, projectId, Null, "rpc", Null)]
    /\ local' = [local EXCEPT !.user = user, !.projectId = projectId,
                              !.loading = TRUE, !.error = Null]
    /\ last' = Outcome("navigate", user, projectId, "ok")
    /\ UNCHANGED <<projects, project_members, tickets, comments, nextProject,
                   nextTicket, nextComment, creating>>

\* The rpc of a fetchProject call is answered: without access the error is set
\* and the call ends, with access the select of the project row is sent.
fetchProjectAccess(s) ==
    /\ pending[s].op = "fetchProject" /\ pending[s].value = "rpc"
    /\ LET projectIds == rpc_get_user_project_ids(pending[s].caller, Null)
       IN IF pending[s].target \in projectIds
          THEN /\ pending' = [pending EXCEPT ![s].value = "select"]
               /\ UNCHANGED local
               /\ last' = Outcome("fetchProject", pending[s].caller,
                                  pending[s].target, "hasAccess")
          ELSE /\ pending' = [pending EXCEPT ![s] = NoRequest]
               /\ local' = [local EXCEPT
                              !.error = "You do not have access to this project",
                              !.loading = FALSE]
               /\ last' = Outcome("fetchProject", pending[s].caller,
                                  pending[s].target,
                                  "You do not have access to this project")
    /\ UNCHANGED <<projects, project_members, tickets, comments, nextProject,
                   nextTicket, nextComment, creating>>

\* The select of the project row is answered: setProject(data), or the error
\* of .single() on no row; then setLoading(false).
fetchProjectDetails(s) ==
    /\ pending[s].op = "fetchProject" /\ pending[s].value = "select"
    /\ LET data == {q \in VisibleProjects(pending[s].caller) :
                       q.id = pending[s].target}
       IN /\ local' = IF data = {}
                      THEN [local EXCEPT !.error = "Failed to load project",
                                         !.loading = FALSE]
                      ELSE [local EXCEPT !.project = data, !.loading = FALSE]
          /\ last' = Outcome("fetchProject", pending[s].caller, pending[s].target,
                             IF data = {} THEN "Failed to load project" ELSE "ok")
    /\ pending' = [pending EXCEPT ![s] = NoRequest]
    /\ UNCHANGED <<projects, project_members, tickets, comments, nextProject,
                   nextTicket, nextComment, creating>>

\* The project page of one browser while its route changes, with members
\* invited and removed meanwhile.
NextPage ==
    \/ \E u \in Users : inviteMember(u, 1, "B", "developer")
    \/ \E u \in Users, m \in project_members : removeMember(u, m)
    \/ \E s \in Sessions, u \in Users, p \in 1..2 : fetchProjectStart(s, u, p)
    \/ \E s \in Sessions : fetchProjectAccess(s)
    \/ \E s \in Sessions : fetchProjectDetails(s)

SpecPage == InitThreads /\ [][NextPage]_vars

\* C29: when no fetchProject call is in flight, the page is not loading and
\* shows an error or the project of the current route; and a project is only
\* put into the page's state while it is in the caller's resolver result.
C29_PageShowsRouteProject ==
    /\ []((local.projectId # 0 /\ \A s \in Sessions : pending[s] = NoRequest)
            => /\ local.loading = FALSE
               /\ \/ local.error # Null
                  \/ \E p \in local.project : p.id = local.projectId)
    /\ [][local'.project # local.project =>
            \A p \in local'.project : p.id \in get_user_project_ids(local.user)]_vars

\* ------------------------------------------------------------ C30
\* C30: createProject in its two steps.  A failed project insert creates
\* nothing and leaves no membership insert to follow; a failed membership
\* insert keeps the project, which stays in the creator's resolver result
\* and opens for the creator as its owner; and whenever the project insert
\* succeeded, the end of createProject puts the new project in front of the
\* local list, where it then occurs exactly once.
C30_CreateProjectTwoSteps ==
    [][/\ (last'.op = "createProject.project" /\ last'.outcome # "ok")
            => UNCHANGED <<projects, project_members, tickets, comments,
                           creating, local>>
       /\ (last'.op = "createProject.member" /\ last'.outcome # "ok")
            => /\ UNCHANGED <<projects, project_members>>
               /\ \A p \in projects, u \in Users :
                    (p.id = last'.target /\ u = last'.caller) =>
                       /\ p.owner_id = u
                       /\ p.id \in get_user_project_ids(u)'
                       /\ fetchProjectResult(u, p.id)' =
                            [project |-> {p}, error |-> Null]
       /\ last'.op = "createProject.member"
            => /\ local'.projects =
                    <<ProjectRow(last'.target, "n1", last'.caller)>> \o local.projects
               /\ Cardinality({i \in 1..Len(local'.projects) :
                                 local'.projects[i].id = last'.target}) = 1]_vars

\* Witness of C30: the membership insert of createProject has failed; the
\* project is stored without a row for its creator and is on the local list.
C30_Witness ==
    /\ last.op = "createProject.member" /\ last.outcome # "ok"
    /\ HasProject(last.target)
    /\ ~HasMember(last.target, last.caller)
    /\ Len(local.projects) = 1 /\ local.projects[1].id = last.target

====
